---- MODULE Spec2Model ----
(***************************************************************************)
(* srcbook-mcp: the search provider server (packages/api/mcp/index.mts)    *)
(* and the search client facade (McpService).  The two run in separate     *)
(* processes; each is a single-threaded event loop, so every action below  *)
(* is one synchronous run of a handler between two awaits.                 *)
(*                                                                         *)
(* Text that the code inspects (resource URIs, user input, error messages) *)
(* is a sequence of one-character strings.  Text that the code only builds *)
(* from a template is the sequence of the template's parts.                *)
(***************************************************************************)
EXTENDS Naturals, Integers, Sequences, FiniteSets, TLC

VARIABLES
  \* ---- provider server (SrcbookMCPServer) ----
  recentSearches,   \* CachedSearch[], most recent first
  exaApiKey,        \* the credential getConfig() reads; NoKey when unset
  inv,              \* the CallTool handler invocations in flight
  reply,            \* the response last written to the transport, until read
  history,          \* ghost: the successful searches, in completion order
  \* ---- client facade (McpService) ----
  client,           \* this.client: NoClient or the id of a Client
  clients,          \* every Client constructed so far: id -> status
  call,             \* the search()/enrichPromptWithWebResults() calls in progress
  disc,             \* the disconnect() calls in progress
  done,             \* what the call that finished last handed to its caller, until taken
  \* ---- text functions of the facade, called on their own ----
  text              \* the function called, its arguments and what it returned so far

providerVars == <<recentSearches, exaApiKey, inv, reply, history>>
facadeVars == <<client, clients, call, disc, done>>
vars == <<recentSearches, exaApiKey, inv, reply, history, client, clients, call, disc, done, text>>

(***************************************************************************)
(* Bounds of the model.                                                    *)
(***************************************************************************)
\* Successful searches the provider completes in one run (past the cap of 5).
MaxSearches == 6
\* Clients one facade constructs in one run.
MaxClients == 2
\* Length of the contents truncateContent is called on with a limit of 6
\* characters, all of them enumerated.
MaxContent == 8
\* Times truncateContent is applied to its own result.
MaxTruncations == 2
\* Pieces of which an input of detectSearchCommand is put together.
MaxTokens == 4

\* ======================================================================
\* Provider server
\* ======================================================================

\* The cap of `if (this.recentSearches.length > 5)`.
MaxRecent == 5

NoKey == "<unset>"
ApiKeys == {NoKey, "key"}

Invocations == {1, 2}
ToolNames == {"search", "lookup"}

\* request.params.arguments as the handler sees it: whether a `query` /
\* `numResults` property is present and of which JavaScript type.
Arguments ==
  { [queryType |-> "string", query |-> "cats", numType |-> "undefined", numResults |-> 0],
    [queryType |-> "string", query |-> "cats", numType |-> "number", numResults |-> 5],
    [queryType |-> "string", query |-> "cats", numType |-> "number", numResults |-> 0],
    [queryType |-> "string", query |-> "", numType |-> "undefined", numResults |-> 0],
    [queryType |-> "undefined", query |-> "", numType |-> "undefined", numResults |-> 0],
    [queryType |-> "string", query |-> "cats", numType |-> "string", numResults |-> 0] }

\* Bodies the search API answers with (parsed JSON documents).
Data == {"r1", "r2"}
\* Readings of the wall clock, already in ISO form.
Timestamps == {"2024-01-01T00:00:00.000Z"}
StatusTexts == {"Unauthorized"}
NetworkErrors == {"fetch failed"}
ParseErrors == {"Unexpected token"}

NoReply == [req |-> [method |-> "none"]]
IdleInv == [pc |-> "idle"]

\* ---- text helpers ----
DigitChars == <<"0", "1", "2", "3", "4", "5", "6", "7", "8", "9">>
Digits == {DigitChars[k] : k \in 1..10}

DigitValue(ch) == CHOOSE d \in 0..9 : DigitChars[d + 1] = ch

\* `${index}`: the decimal digits of a non-negative integer.
RECURSIVE ToDigits(_)
ToDigits(n) ==
  IF n < 10 THEN <<DigitChars[n + 1]>>
  ELSE ToDigits(n \div 10) \o <<DigitChars[(n % 10) + 1]>>

\* parseInt on a string of decimal digits.
RECURSIVE ParseInt(_)
ParseInt(ds) ==
  IF Len(ds) = 0 THEN 0
  ELSE 10 * ParseInt(SubSeq(ds, 1, Len(ds) - 1)) + DigitValue(ds[Len(ds)])

UriPrefix ==
  <<"s", "r", "c", "b", "o", "o", "k", ":", "/", "/",
    "s", "e", "a", "r", "c", "h", "e", "s", "/">>

\* `srcbook://searches/${index}`
SearchUri(index) == UriPrefix \o ToDigits(index)

\* uri.match(/^srcbook:\/\/searches\/(\d+)$/): the captured digits, or <<>>
\* when the pattern does not match (the capture is never empty).
UriMatch(uri) ==
  LET p == Len(UriPrefix) IN
  IF /\ Len(uri) > p
     /\ SubSeq(uri, 1, p) = UriPrefix
     /\ \A k \in (p + 1)..Len(uri) : uri[k] \in Digits
  THEN SubSeq(uri, p + 1, Len(uri))
  ELSE <<>>

\* JSON.stringify(value, null, 2): the text of `value`, kept symbolic.
JsonStringify(value) == [json |-> value, indent |-> 2]

McpError(code, message) == [kind |-> "error", code |-> code, message |-> message]

\* ---- resources ----
\* The ListResources handler's result.
ListResult ==
  [kind |-> "list",
   resources |->
     [index \in 1..Len(recentSearches) |->
        [uri |-> SearchUri(index - 1),
         name |-> <<"Recent search: ", recentSearches[index].query>>,
         mimeType |-> "application/json",
         description |-> <<"Search results for: ", recentSearches[index].query,
                           " (", recentSearches[index].timestamp, ")">>]]]

\* ReadResult with the bounds test off by one (`>` for `>=`).
ReadResultPastEnd(uri) ==
  LET match == UriMatch(uri) IN
  IF match = <<>>
  THEN McpError("InvalidRequest", <<"Unknown resource: ", uri>>)
  ELSE LET index == ParseInt(match) IN
       IF index > Len(recentSearches) \/ recentSearches = <<>>
       THEN McpError("InvalidRequest", <<"Search result not found: ", index>>)
       ELSE [kind |-> "read",
             contents |-> <<[uri |-> uri,
                             mimeType |-> "application/json",
                             text |-> JsonStringify(
                               recentSearches[IF index = Len(recentSearches)
                                              THEN index ELSE index + 1].response)]>>]

\* The ReadResource handler's result for request.params.uri.
ReadResult(uri) ==
  LET match == UriMatch(uri) IN
  IF match = <<>>
  THEN McpError("InvalidRequest", <<"Unknown resource: ", uri>>)
  ELSE LET index == ParseInt(match) IN
       IF index >= Len(recentSearches)
       THEN McpError("InvalidRequest", <<"Search result not found: ", index>>)
       ELSE [kind |-> "read",
             contents |-> <<[uri |-> uri,
                             mimeType |-> "application/json",
                             text |-> JsonStringify(recentSearches[index + 1].response)]>>]

\* URIs a client may ask for: listed ones, ones past the cache, and ones
\* that are not of the listed form.
ReadUris ==
  {SearchUri(k) : k \in 0..(MaxRecent + 1)} \cup
  { UriPrefix,
    UriPrefix \o <<"0", "0">>,
    UriPrefix \o <<"0", "2">>,
    UriPrefix \o <<"1", "x">>,
    UriPrefix \o <<"-", "1">>,
    UriPrefix \o <<"1", "0">>,
    <<"x">> \o UriPrefix \o <<"0">>,
    <<"s", "r", "c", "b", "o", "o", "k", ":", "/", "/", "0">> }

\* A handler's result goes out on the stdio transport in the turn that
\* produced it; `reply` holds it until the client has read it.  Replies never
\* feed back into the server, so the handlers are modelled between replies.
ListResources ==
  /\ reply = NoReply
  /\ reply' = [req |-> [method |-> "resources/list"], result |-> ListResult]
  /\ UNCHANGED <<recentSearches, exaApiKey, inv, history>>
  /\ UNCHANGED <<facadeVars, text>>

ReadResource(uri) ==
  /\ reply = NoReply
  /\ reply' = [req |-> [method |-> "resources/read", uri |-> uri],
               result |-> ReadResult(uri)]
  /\ UNCHANGED <<recentSearches, exaApiKey, inv, history>>
  /\ UNCHANGED <<facadeVars, text>>

\* ---- tools ----
\* isValidSearchArgs: a non-empty string `query`, an optional numeric
\* `numResults`.
isValidSearchArgs(arguments) ==
  /\ arguments.queryType = "string"
  /\ arguments.query # ""
  /\ arguments.numType \in {"undefined", "number"}

\* PreflightError with the two checks in the other order.
PreflightErrorArgsFirst(name, arguments) ==
  IF ~isValidSearchArgs(arguments) THEN "InvalidParams"
  ELSE IF name # "search" THEN "MethodNotFound"
  ELSE "none"

\* The checks made before the first await: the McpError code thrown, or
\* "none".
PreflightError(name, arguments) ==
  IF name # "search" THEN "MethodNotFound"
  ELSE IF ~isValidSearchArgs(arguments) THEN "InvalidParams"
  ELSE "none"

PreflightMessage(code, name) ==
  IF code = "MethodNotFound" THEN <<"Unknown tool: ", name>>
  ELSE <<"Invalid search arguments">>

\* `request.params.arguments.numResults || 10`
NumResultsOrDefault(arguments) ==
  IF arguments.numType = "number" /\ arguments.numResults # 0
  THEN arguments.numResults
  ELSE 10

\* The body of the POST to https://api.exa.ai/search.
SearchRequestBody(arguments) ==
  [query |-> arguments.query,
   type |-> "auto",
   numResults |-> NumResultsOrDefault(arguments),
   contents |-> [text |-> TRUE]]

\* CacheInsert without the eviction.
CacheInsertNoPop(cache, entry) == <<entry>> \o cache

\* CacheInsert evicting the newest entry instead of the oldest (shift for pop).
CacheInsertShift(cache, entry) ==
  LET pushed == <<entry>> \o cache IN
  IF Len(pushed) > MaxRecent THEN SubSeq(pushed, 2, Len(pushed)) ELSE pushed

\* CacheInsert with push for unshift: the newest entry goes to the tail and
\* the head is evicted.
CacheInsertPush(cache, entry) ==
  LET pushed == cache \o <<entry>> IN
  IF Len(pushed) > MaxRecent THEN SubSeq(pushed, 2, Len(pushed)) ELSE pushed

\* unshift the new entry, then pop once when the cache is over the cap.
CacheInsert(cache, entry) ==
  LET pushed == <<entry>> \o cache IN
  IF Len(pushed) > MaxRecent THEN SubSeq(pushed, 1, Len(pushed) - 1) ELSE pushed

\* What the client sent and what the handler met on the way: the credential
\* it loaded and how the HTTP exchange went.
ToolReply(name, arguments, key, fetch, body, result) ==
  [req |-> [method |-> "tools/call", name |-> name, arguments |-> arguments],
   key |-> key, fetch |-> fetch, body |-> body, result |-> result]

InternalError(errorMessage) ==
  McpError("InternalError", <<"Error while searching: ">> \o errorMessage)

\* The handler up to `await getConfig()`.
CallToolBegin(i, name, arguments) ==
  /\ reply = NoReply
  /\ inv[i].pc = "idle"
  /\ LET code == PreflightError(name, arguments) IN
     IF code # "none"
     THEN /\ reply' = ToolReply(name, arguments, "unread", "none", "none",
                                McpError(code, PreflightMessage(code, name)))
          /\ UNCHANGED inv
     ELSE /\ inv' = [inv EXCEPT ![i] = [pc |-> "getConfig", arguments |-> arguments]]
          /\ UNCHANGED reply
  /\ UNCHANGED <<recentSearches, exaApiKey, history>>
  /\ UNCHANGED <<facadeVars, text>>

\* getConfig() resolves; the fetch is issued when a credential is set.
GetConfigDone(i) ==
  /\ reply = NoReply
  /\ inv[i].pc = "getConfig"
  /\ IF exaApiKey = NoKey
     THEN /\ reply' = ToolReply("search", inv[i].arguments, exaApiKey, "none", "none",
                                McpError("InvalidRequest", <<"Exa API key not configured">>))
          /\ inv' = [inv EXCEPT ![i] = IdleInv]
     ELSE /\ inv' = [inv EXCEPT ![i] =
                       [pc |-> "fetch", arguments |-> inv[i].arguments, key |-> exaApiKey,
                        authorization |-> <<"Bearer ", exaApiKey>>,
                        body |-> SearchRequestBody(inv[i].arguments)]]
          /\ UNCHANGED reply
  /\ UNCHANGED <<recentSearches, exaApiKey, history>>
  /\ UNCHANGED <<facadeVars, text>>

\* fetch() rejects: the catch block wraps the message.
FetchFail(i, message) ==
  /\ reply = NoReply
  /\ inv[i].pc = "fetch"
  /\ reply' = ToolReply("search", inv[i].arguments, inv[i].key, "rejected", "none",
                        InternalError(<<message>>))
  /\ inv' = [inv EXCEPT ![i] = IdleInv]
  /\ UNCHANGED <<recentSearches, exaApiKey, history>>
  /\ UNCHANGED <<facadeVars, text>>

\* fetch() resolves with a response: `if (!response.ok) throw`, else the
\* body is read.
FetchDone(i, ok, statusText) ==
  /\ reply = NoReply
  /\ inv[i].pc = "fetch"
  /\ IF ~ok
     THEN /\ reply' = ToolReply("search", inv[i].arguments, inv[i].key, "status", "none",
                                InternalError(<<"Exa API error: ", statusText>>))
          /\ inv' = [inv EXCEPT ![i] = IdleInv]
     ELSE /\ inv' = [inv EXCEPT ![i].pc = "json"]
          /\ UNCHANGED reply
  /\ UNCHANGED <<recentSearches, exaApiKey, history>>
  /\ UNCHANGED <<facadeVars, text>>

\* JsonFail caching an entry for the body that could not be read.
JsonFailCaches(i, message) ==
  /\ reply = NoReply
  /\ inv[i].pc = "json"
  /\ reply' = ToolReply("search", inv[i].arguments, inv[i].key, "ok", "unparsable",
                        InternalError(<<message>>))
  /\ recentSearches' = CacheInsert(recentSearches,
                                   [query |-> inv[i].arguments.query, response |-> message,
                                    timestamp |-> CHOOSE now \in Timestamps : TRUE])
  /\ inv' = [inv EXCEPT ![i] = IdleInv]
  /\ UNCHANGED <<exaApiKey, history>>
  /\ UNCHANGED <<facadeVars, text>>

\* response.json() rejects.
JsonFail(i, message) ==
  /\ reply = NoReply
  /\ inv[i].pc = "json"
  /\ reply' = ToolReply("search", inv[i].arguments, inv[i].key, "ok", "unparsable",
                        InternalError(<<message>>))
  /\ inv' = [inv EXCEPT ![i] = IdleInv]
  /\ UNCHANGED <<recentSearches, exaApiKey, history>>
  /\ UNCHANGED <<facadeVars, text>>

\* response.json() resolves: cache the result and return it.
JsonDone(i, data, now) ==
  /\ reply = NoReply
  /\ inv[i].pc = "json"
  /\ Len(history) < MaxSearches
  /\ LET entry == [query |-> inv[i].arguments.query, response |-> data, timestamp |-> now] IN
     /\ recentSearches' = CacheInsert(recentSearches, entry)
     /\ history' = Append(history, entry)
  /\ reply' = ToolReply("search", inv[i].arguments, inv[i].key, "ok", "parsed",
                        [kind |-> "tool",
                         content |-> <<[type |-> "text", text |-> JsonStringify(data)]>>])
  /\ inv' = [inv EXCEPT ![i] = IdleInv]
  /\ UNCHANGED exaApiKey
  /\ UNCHANGED <<facadeVars, text>>

\* The client reads the reply from the transport.
Deliver ==
  /\ reply # NoReply
  /\ reply' = NoReply
  /\ UNCHANGED <<recentSearches, exaApiKey, inv, history>>
  /\ UNCHANGED <<facadeVars, text>>

\* The credential is set, changed or removed in the application's settings.
UpdateConfig(key) ==
  /\ reply = NoReply
  /\ key # exaApiKey
  /\ exaApiKey' = key
  /\ UNCHANGED <<recentSearches, inv, reply, history>>
  /\ UNCHANGED <<facadeVars, text>>

ProviderInit ==
  /\ recentSearches = <<>>
  /\ exaApiKey = NoKey
  /\ inv = [i \in Invocations |-> IdleInv]
  /\ reply = NoReply
  /\ history = <<>>

ProviderNext ==
  \/ ListResources
  \/ \E uri \in ReadUris : ReadResource(uri)
  \/ \E i \in Invocations, name \in ToolNames, arguments \in Arguments :
       CallToolBegin(i, name, arguments)
  \/ \E i \in Invocations : GetConfigDone(i)
  \/ \E i \in Invocations, message \in NetworkErrors : FetchFail(i, message)
  \/ \E i \in Invocations, ok \in BOOLEAN, statusText \in StatusTexts :
       FetchDone(i, ok, statusText)
  \/ \E i \in Invocations, message \in ParseErrors : JsonFail(i, message)
  \/ \E i \in Invocations, data \in Data, now \in Timestamps : JsonDone(i, data, now)
  \/ Deliver
  \/ \E key \in ApiKeys : UpdateConfig(key)

\* ======================================================================
\* Client facade (McpService): text functions
\* ======================================================================

\* `private readonly maxTokensPerResult = 300`
maxTokensPerResult == 300

\* s.slice(from, to) with 0 <= from and a possibly negative `to`
\* (counted from the end), both clamped to the string.
Slice(s, from, to) ==
  LET end == IF to < 0 THEN (IF Len(s) + to < 0 THEN 0 ELSE Len(s) + to)
             ELSE (IF to > Len(s) THEN Len(s) ELSE to)
  IN IF from >= end THEN <<>> ELSE SubSeq(s, from + 1, end)

\* s.lastIndexOf(ch): the 0-based index of the last `ch`, or -1.
LastIndexOf(s, ch) ==
  LET at == {k \in 1..Len(s) : s[k] = ch} IN
  IF at = {} THEN -1 ELSE (CHOOSE k \in at : \A j \in at : j <= k) - 1

\* s.includes(sub)
Includes(s, sub) ==
  \E k \in 0..(Len(s) - Len(sub)) : SubSeq(s, k + 1, k + Len(sub)) = sub

\* truncateContent(content, maxLength)
truncateContent(content, maxLength) ==
  LET charLimit == maxLength * 6 IN
  IF Len(content) <= charLimit THEN content
  ELSE LET truncated == Slice(content, 0, charLimit)
           lastPeriod == LastIndexOf(truncated, ".")
       IN \* lastPeriod > charLimit * 0.7
          IF lastPeriod * 10 > charLimit * 7
          THEN Slice(truncated, 0, lastPeriod + 1)
          ELSE LET lastSpace == LastIndexOf(truncated, " ") IN
               Slice(truncated, 0, lastSpace) \o <<".", ".", ".">>

\* Character classes of the two patterns of detectSearchCommand.
WhiteSpace == {" ", "\t", "\n", "\r"}
LineTerminators == {"\n", "\r"}
\* (the pattern also excludes the backquote, which no string of this module
\* can hold; no input below uses it)
UrlExcluded == WhiteSpace \cup {"<", ">", "{", "}", "|", "^", "~", "[", "]", "\""}
AlnumSlash ==
  { "a", "b", "c", "d", "e", "f", "g", "h", "i", "j", "k", "l", "m", "n",
    "o", "p", "q", "r", "s", "t", "u", "v", "w", "x", "y", "z", "A", "B",
    "C", "D", "E", "F", "G", "H", "I", "J", "K", "L", "M", "N", "O", "P",
    "Q", "R", "S", "T", "U", "V", "W", "X", "Y", "Z", "0", "1", "2", "3",
    "4", "5", "6", "7", "8", "9", "/" }

\* No match (null); a match is never the empty string.
NoMatch == <<>>

\* input.match(/@web\s+(.+)$/): the capture of the leftmost match, \s+ taking
\* as much white space as leaves a non-empty rest without a line terminator.
WebCommandMatch(input) ==
  LET n == Len(input)
      CaptureStarts(i) ==
        {k \in (i + 5)..n :
           /\ \A j \in (i + 4)..(k - 1) : input[j] \in WhiteSpace
           /\ \A j \in k..n : input[j] \notin LineTerminators}
      starts == {i \in 1..(n - 3) :
                   /\ SubSeq(input, i, i + 3) = <<"@", "w", "e", "b">>
                   /\ CaptureStarts(i) # {}}
  IN IF starts = {} THEN NoMatch
     ELSE LET i == CHOOSE x \in starts : \A y \in starts : x <= y
              k == CHOOSE x \in CaptureStarts(i) : \A y \in CaptureStarts(i) : y <= x
          IN SubSeq(input, k, n)

\* input.match(/https?:\/\/[^\s<>{}|\^~[\]..]+[a-zA-Z0-9/]/): the leftmost
\* match, as long as the greedy class allows with a final letter, digit or
\* slash.
UrlMatch(input) ==
  LET n == Len(input)
      \* the index of the last character of the scheme starting at i, or 0
      SchemeEnd(i) ==
        IF i + 6 <= n /\ SubSeq(input, i, i + 6) = <<"h", "t", "t", "p", ":", "/", "/">>
        THEN i + 6
        ELSE IF i + 7 <= n /\ SubSeq(input, i, i + 7) = <<"h", "t", "t", "p", "s", ":", "/", "/">>
        THEN i + 7
        ELSE 0
      Ends(i) ==
        LET e == SchemeEnd(i) IN
        IF e = 0 THEN {}
        ELSE {p \in (e + 2)..n :
                /\ \A j \in (e + 1)..p : input[j] \notin UrlExcluded
                /\ input[p] \in AlnumSlash}
      starts == {i \in 1..n : Ends(i) # {}}
  IN IF starts = {} THEN NoMatch
     ELSE LET i == CHOOSE x \in starts : \A y \in starts : x <= y
              p == CHOOSE x \in Ends(i) : \A y \in Ends(i) : y <= x
          IN SubSeq(input, i, p)

\* detectSearchCommand(input): the marker first, then a URL, else null.
detectSearchCommand(input) ==
  IF WebCommandMatch(input) # NoMatch THEN WebCommandMatch(input)
  ELSE IF UrlMatch(input) # NoMatch THEN UrlMatch(input)
  ELSE NoMatch

\* formatSearchResults(results, query): the parts of the text, in order.
formatSearchResults(results, query) ==
  LET header == <<"Search Results for: \"", query, "\"\n\n">>
      Block(index) ==
        <<"[Result ", ToDigits(index), "]\n",
          "Source: ", results[index].url, "\n",
          "Title: ", results[index].title, "\n",
          "Summary: ", truncateContent(results[index].content, maxTokensPerResult), "\n">>
      Blocks[k \in 0..Len(results)] ==
        IF k = 0 THEN <<>>
        ELSE Blocks[k - 1] \o (IF k = 1 THEN <<>> ELSE <<"\n">>) \o Block(k)
  IN IF Len(results) = 0
     THEN header \o <<"No relevant results found.">>
     ELSE header \o <<"\n">> \o Blocks[Len(results)] \o
          <<"\n", "End of search results. Found ", ToDigits(Len(results)),
            " relevant sources.\n">>

\* ======================================================================
\* Client facade (McpService): state and operations
\* ======================================================================

\* `private client: Client | null = null`
NoClient == 0

Calls == {1, 2}
Disconnects == {1}

\* Arguments of direct search() calls and of enrichPromptWithWebResults().
SearchQueries == {<<"q">>}
EnrichInputs ==
  { <<"h", "i">>,
    <<"@", "w", "e", "b">>,
    <<"@", "w", "e", "b", " ", "q">>,
    <<"h", "t", "t", "p", ":", "/", "/", "a", "b">> }

\* Values an awaited SDK call may reject with: an Error whose message names
\* a connection, another Error, and a thrown value that is not an Error.
NoThrown == [type |-> "none"]
Failures ==
  { [type |-> "Error", message |-> <<"c", "o", "n", "n", "e", "c", "t", "i", "o", "n", " ", "l", "o", "s", "t">>],
    [type |-> "Error", message |-> <<"b", "o", "o", "m">>],
    [type |-> "NonError", message |-> <<"c", "o", "n", "n", "e", "c", "t", "i", "o", "n">>] }

\* What wss.broadcast() throws when it fails.
BroadcastError == [type |-> "Error", message |-> <<"s", "o", "c", "k", "e", "t", " ", "c", "l", "o", "s", "e", "d">>]
\* What results.map throws when `results` is not an array.
TypeError == [type |-> "Error", message |-> <<"r", "e", "s", "u", "l", "t", "s", ".", "m", "a", "p", " ", "i", "s", " ", "n", "o", "t", " ", "a", " ", "f", "u", "n", "c", "t", "i", "o", "n">>]

\* Values client.callTool() may resolve with.
Responses ==
  { [type |-> "object", hasResults |-> TRUE, isArray |-> TRUE, results |-> <<>>],
    [type |-> "object", hasResults |-> TRUE, isArray |-> TRUE,
     results |-> <<[url |-> <<"u">>, title |-> <<"t">>, content |-> <<"c", ".">>]>>],
    [type |-> "object", hasResults |-> TRUE, isArray |-> FALSE, results |-> <<>>],
    [type |-> "object", hasResults |-> FALSE, isArray |-> FALSE, results |-> <<>>],
    [type |-> "null", hasResults |-> FALSE, isArray |-> FALSE, results |-> <<>>] }

SearchError(message, searchQuery) ==
  [type |-> "SearchError", message |-> message, searchQuery |-> searchQuery]
MCPConnectionError(message, searchQuery, cause) ==
  [type |-> "MCPConnectionError", message |-> message, searchQuery |-> searchQuery,
   cause |-> cause]
MCPTimeoutError(message, searchQuery) ==
  [type |-> "MCPTimeoutError", message |-> message, searchQuery |-> searchQuery]

NoOutcome == [type |-> "pending"]
NoReturn == [kind |-> "none"]

\* A call in progress: which method was called (kind), its argument (input,
\* for enrich), the search query, the Client it uses (own), the timeout
\* timer, the callTool promise and the status broadcasts made so far (sent).
\* Once search() has settled, the slot only remembers the side of the race
\* that is still pending (pc = "settled").
IdleCall ==
  [pc |-> "idle", kind |-> "none", input |-> <<>>, query |-> <<>>, own |-> NoClient,
   timer |-> "none", tool |-> "none", sent |-> <<>>]

\* What a finished call handed to its caller: for search() what the promise
\* settled with (outcome), the value the catch block caught (thrown) and the
\* side of the race that settled it (won); for enrich the broadcasts made,
\* the value returned, or that an exception escaped (threw).
NoDone == [method |-> "none"]
Finished(rec) ==
  [method |-> rec.kind, input |-> rec.input, query |-> rec.query, own |-> rec.own,
   outcome |-> NoOutcome, thrown |-> NoThrown, won |-> "none",
   sent |-> rec.sent, returned |-> NoReturn, threw |-> FALSE]

IdleDisc == [pc |-> "idle", target |-> NoClient]

\* ClassifyError without the rethrow of the typed errors.
ClassifyErrorNoRethrow(error, query) ==
  IF error.type # "NonError" /\ Includes(error.message, <<"c", "o", "n", "n", "e", "c", "t", "i", "o", "n">>)
  THEN MCPConnectionError(<<"F", "a", "i", "l", "e", "d", " ", "t", "o", " ", "c", "o", "n", "n", "e", "c", "t", " ", "t", "o", " ", "s", "e", "a", "r", "c", "h", " ", "s", "e", "r", "v", "i", "c", "e">>, query, error)
  ELSE SearchError(IF error.type # "NonError" THEN error.message
                   ELSE <<"U", "n", "k", "n", "o", "w", "n", " ", "s", "e", "a", "r", "c", "h", " ", "e", "r", "r", "o", "r">>,
                   query)

\* The catch block of search(): the error it throws for the caught `error`.
ClassifyError(error, query) ==
  IF error.type # "NonError" /\ Includes(error.message, <<"c", "o", "n", "n", "e", "c", "t", "i", "o", "n">>)
  THEN MCPConnectionError(<<"F", "a", "i", "l", "e", "d", " ", "t", "o", " ", "c", "o", "n", "n", "e", "c", "t", " ", "t", "o", " ", "s", "e", "a", "r", "c", "h", " ", "s", "e", "r", "v", "i", "c", "e">>, query, error)
  ELSE IF error.type \in {"SearchError", "MCPTimeoutError", "MCPConnectionError"}
  THEN error
  ELSE SearchError(IF error.type = "Error" THEN error.message
                   ELSE <<"U", "n", "k", "n", "o", "w", "n", " ", "s", "e", "a", "r", "c", "h", " ", "e", "r", "r", "o", "r">>,
                   query)

\* The validation of the response after the race: the value search() returns, or
\* the SearchError it throws.
ValidateResponse(response, query) ==
  IF response.type = "object" /\ response.hasResults
  THEN [type |-> "ok", response |-> response]
  ELSE SearchError(<<"R", "e", "s", "p", "o", "n", "s", "e", " ", "m", "i", "s", "s", "i", "n", "g", " ", "r", "e", "s", "u", "l", "t", "s", " ", "a", "r", "r", "a", "y">>, query)

\* ErrorMessage surfacing the message of every error.
ErrorMessageVerbatim(error) == error.message

\* The message of the `error` status broadcast.
ErrorMessage(error) ==
  IF error.type = "SearchError" THEN error.message
  ELSE <<"U", "n", "k", "n", "o", "w", "n", " ", "e", "r", "r", "o", "r", " ", "d", "u", "r", "i", "n", "g", " ", "w", "e", "b", " ", "s", "e", "a", "r", "c", "h">>

\* The catch block of enrichPromptWithWebResults: the results for the
\* caller.  The error broadcast may itself throw, and then the exception
\* leaves the method.
EnrichCatch(fin, error) ==
  { IF broadcastOk
    THEN [fin EXCEPT !.sent = Append(@, [status |-> "error", query |-> fin.query,
                                         error |-> ErrorMessage(error)]),
                     !.returned = [kind |-> "query", text |-> fin.input]]
    ELSE [fin EXCEPT !.threw = TRUE]
    : broadcastOk \in BOOLEAN }

\* enrichPromptWithWebResults after `await this.search(searchQuery)`.
EnrichAfterSearch(fin) ==
  IF fin.outcome.type = "ok"
  THEN LET broadcast == [fin EXCEPT !.sent = Append(@, [status |-> "complete",
                                                        query |-> fin.query])]
       IN EnrichCatch(fin, BroadcastError) \cup
          (IF fin.outcome.response.isArray
           THEN {[broadcast EXCEPT
                    !.returned =
                      [kind |-> "enriched",
                       formattedResults |->
                         formatSearchResults(fin.outcome.response.results, fin.query),
                       query |-> fin.input]]}
           ELSE EnrichCatch(broadcast, TypeError))
  ELSE EnrichCatch(fin, fin.outcome)

\* search() settles with `outcome`, having caught `thrown` (NoThrown on
\* success); an enrich call goes on in the same turn.
Settle(rec, outcome, thrown, won) ==
  LET fin == [Finished(rec) EXCEPT !.outcome = outcome, !.thrown = thrown, !.won = won] IN
  IF rec.kind = "search" THEN {fin} ELSE EnrichAfterSearch(fin)

Fail(rec, error, won) == Settle(rec, ClassifyError(error, rec.query), error, won)

\* The slot of a settled call: what is left pending of its race.
Settled(timer, tool) ==
  IF timer = "armed" \/ tool = "pending"
  THEN [IdleCall EXCEPT !.pc = "settled", !.timer = timer, !.tool = tool]
  ELSE IdleCall

\* search() up to its first await: getClient() returns the cached client, or
\* constructs one and starts connecting it.  With a cached client the timer
\* and the tool call follow in the same turn.
SearchBegin(c, rec) ==
  /\ IF client # NoClient
     THEN /\ call' = [call EXCEPT ![c] = [rec EXCEPT !.pc = "race", !.own = client,
                                                     !.timer = "armed",
                                                     !.tool = "pending"]]
          /\ UNCHANGED clients
     ELSE /\ Len(clients) < MaxClients
          /\ clients' = Append(clients, "connecting")
          /\ call' = [call EXCEPT ![c] = [rec EXCEPT !.pc = "connect",
                                                     !.own = Len(clients) + 1]]
  /\ UNCHANGED <<client, disc, done>>

SearchStart(c, query) ==
  /\ done = NoDone
  /\ call[c].pc \in {"idle", "settled"}
  /\ SearchBegin(c, [IdleCall EXCEPT !.kind = "search", !.query = query])
  /\ UNCHANGED <<providerVars, text>>

\* HasTrigger with the early return left out.
HasTriggerAlways(searchQuery) == TRUE

\* `if (!searchQuery) return query`: null and the empty string are falsy.
HasTrigger(searchQuery) == searchQuery # NoMatch

EnrichStart(c, input) ==
  /\ done = NoDone
  /\ call[c].pc \in {"idle", "settled"}
  /\ LET searchQuery == detectSearchCommand(input)
         rec == [IdleCall EXCEPT !.kind = "enrich", !.input = input, !.query = searchQuery]
     IN IF ~HasTrigger(searchQuery)
        THEN /\ done' = [Finished(rec) EXCEPT !.returned = [kind |-> "query", text |-> input]]
             /\ UNCHANGED <<client, clients, call, disc>>
        ELSE \/ SearchBegin(c, [rec EXCEPT !.sent = <<[status |-> "searching",
                                                       query |-> searchQuery]>>])
             \/ /\ done' \in EnrichCatch(Finished(rec), BroadcastError)
                /\ UNCHANGED <<client, clients, call, disc>>
  /\ UNCHANGED <<providerVars, text>>

\* client.connect(transport) resolves.
ConnectDone(c) ==
  /\ done = NoDone
  /\ call[c].pc = "connect"
  /\ clients' = [clients EXCEPT ![call[c].own] = "connected"]
  /\ call' = [call EXCEPT ![c].pc = "list"]
  /\ UNCHANGED <<client, disc, done>>
  /\ UNCHANGED <<providerVars, text>>

\* The resources/list request of getClient() resolves.
ListDone(c) ==
  /\ done = NoDone
  /\ call[c].pc = "list"
  /\ call' = [call EXCEPT ![c].pc = "read"]
  /\ UNCHANGED <<client, clients, disc, done>>
  /\ UNCHANGED <<providerVars, text>>

\* The resources/read request resolves: the client is cached, search() arms
\* the timer and calls the tool.
ReadDone(c) ==
  /\ done = NoDone
  /\ call[c].pc = "read"
  /\ client' = call[c].own
  /\ call' = [call EXCEPT ![c].pc = "race", ![c].timer = "armed", ![c].tool = "pending"]
  /\ UNCHANGED <<clients, disc, done>>
  /\ UNCHANGED <<providerVars, text>>

\* connect or one of the two requests rejects: getClient() throws before the
\* client is cached and before any timer exists.
GetClientFail(c, error) ==
  /\ done = NoDone
  /\ call[c].pc \in {"connect", "list", "read"}
  /\ clients' = IF call[c].pc = "connect"
                THEN [clients EXCEPT ![call[c].own] = "failed"]
                ELSE clients
  /\ done' \in Fail(call[c], error, "none")
  /\ call' = [call EXCEPT ![c] = IdleCall]
  /\ UNCHANGED <<client, disc>>
  /\ UNCHANGED <<providerVars, text>>

\* client.callTool() resolves; after the timer has won, nobody listens.
ToolResolve(c, response) ==
  /\ done = NoDone
  /\ call[c].tool = "pending"
  /\ IF call[c].pc = "race"
     THEN LET checked == ValidateResponse(response, call[c].query) IN
          done' \in (IF checked.type = "ok"
                     THEN Settle(call[c], checked, NoThrown, "tool")
                     ELSE Fail(call[c], checked, "tool"))
     ELSE UNCHANGED done
  /\ call' = [call EXCEPT ![c] = Settled(call[c].timer, "none")]
  /\ UNCHANGED <<client, clients, disc>>
  /\ UNCHANGED <<providerVars, text>>

\* client.callTool() rejects.
ToolReject(c, error) ==
  /\ done = NoDone
  /\ call[c].tool = "pending"
  /\ IF call[c].pc = "race"
     THEN done' \in Fail(call[c], error, "tool")
     ELSE UNCHANGED done
  /\ call' = [call EXCEPT ![c] = Settled(call[c].timer, "none")]
  /\ UNCHANGED <<client, clients, disc>>
  /\ UNCHANGED <<providerVars, text>>

\* TimerFire settling the call again after the race is over.
TimerFireDelivers(c) ==
  /\ done = NoDone
  /\ call[c].timer = "armed"
  /\ done' \in Fail(call[c], MCPTimeoutError(<<"S", "e", "a", "r", "c", "h", " ", "t", "i", "m", "e", "o", "u", "t">>, call[c].query), "timer")
  /\ call' = [call EXCEPT ![c] = Settled("none", call[c].tool)]
  /\ UNCHANGED <<client, clients, disc>>
  /\ UNCHANGED <<providerVars, text>>

\* The 30 s timer fires and rejects the timeout promise.
TimerFire(c) ==
  /\ done = NoDone
  /\ call[c].timer = "armed"
  /\ IF call[c].pc = "race"
     THEN done' \in Fail(call[c], MCPTimeoutError(<<"S", "e", "a", "r", "c", "h", " ", "t", "i", "m", "e", "o", "u", "t">>, call[c].query), "timer")
     ELSE UNCHANGED done
  /\ call' = [call EXCEPT ![c] = Settled("none", call[c].tool)]
  /\ UNCHANGED <<client, clients, disc>>
  /\ UNCHANGED <<providerVars, text>>

\* disconnect() up to `await this.client.close()`; with no cached client it
\* returns at once.
DisconnectStart(d) ==
  /\ done = NoDone
  /\ disc[d].pc = "idle"
  /\ IF client = NoClient
     THEN /\ done' = [method |-> "disconnect", target |-> NoClient, resolved |-> TRUE]
          /\ UNCHANGED <<clients, disc>>
     ELSE /\ disc' = [disc EXCEPT ![d] = [pc |-> "closing", target |-> client]]
          /\ clients' = [clients EXCEPT ![client] = "closing"]
          /\ UNCHANGED done
  /\ UNCHANGED <<client, call>>
  /\ UNCHANGED <<providerVars, text>>

\* CloseDone without `this.client = null`.
CloseDoneNoClear(d) ==
  /\ done = NoDone
  /\ disc[d].pc = "closing"
  /\ clients' = [clients EXCEPT ![disc[d].target] = "closed"]
  /\ disc' = [disc EXCEPT ![d] = IdleDisc]
  /\ done' = [method |-> "disconnect", target |-> disc[d].target, resolved |-> TRUE]
  /\ UNCHANGED <<client, call>>
  /\ UNCHANGED <<providerVars, text>>

\* close() resolves: `this.client = null`.
CloseDone(d) ==
  /\ done = NoDone
  /\ disc[d].pc = "closing"
  /\ clients' = [clients EXCEPT ![disc[d].target] = "closed"]
  /\ client' = NoClient
  /\ disc' = [disc EXCEPT ![d] = IdleDisc]
  /\ done' = [method |-> "disconnect", target |-> disc[d].target, resolved |-> TRUE]
  /\ UNCHANGED call
  /\ UNCHANGED <<providerVars, text>>

\* close() rejects: disconnect() rejects and the client stays cached.
CloseFail(d) ==
  /\ done = NoDone
  /\ disc[d].pc = "closing"
  /\ disc' = [disc EXCEPT ![d] = IdleDisc]
  /\ done' = [method |-> "disconnect", target |-> disc[d].target, resolved |-> FALSE]
  /\ UNCHANGED <<client, clients, call>>
  /\ UNCHANGED <<providerVars, text>>

\* The caller takes the result of the call that finished.  Results never
\* feed back into the facade, so its steps are modelled between results.
Return ==
  /\ done # NoDone
  /\ done' = NoDone
  /\ UNCHANGED <<client, clients, call, disc>>
  /\ UNCHANGED <<providerVars, text>>

FacadeInit ==
  /\ client = NoClient
  /\ clients = <<>>
  /\ call = [c \in Calls |-> IdleCall]
  /\ disc = [d \in Disconnects |-> IdleDisc]
  /\ done = NoDone

FacadeNext ==
  \/ \E c \in Calls, query \in SearchQueries : SearchStart(c, query)
  \/ \E c \in Calls, input \in EnrichInputs : EnrichStart(c, input)
  \/ \E c \in Calls : ConnectDone(c)
  \/ \E c \in Calls : ListDone(c)
  \/ \E c \in Calls : ReadDone(c)
  \/ \E c \in Calls, error \in Failures : GetClientFail(c, error)
  \/ \E c \in Calls, response \in Responses : ToolResolve(c, response)
  \/ \E c \in Calls, error \in Failures : ToolReject(c, error)
  \/ \E c \in Calls : TimerFire(c)
  \/ \E d \in Disconnects : DisconnectStart(d)
  \/ \E d \in Disconnects : CloseDone(d)
  \/ \E d \in Disconnects : CloseFail(d)
  \/ Return

\* ======================================================================
\* Client facade (McpService): the text functions called on their own
\* ======================================================================

\* No text function is being called.
NoText == [fn |-> "none"]

\* maxLength arguments: 6 and 30 characters.  With 30, 70% of the limit is
\* the whole number 21.
TruncateLimits == {1, 5}

ContentChars == {"a", ".", " "}
ShortContents == UNION {[1..n -> ContentChars] : n \in 0..MaxContent}

\* Contents around 30 characters long with at most one period (at p) and at
\* most one space (at q).
LongLengths == 29..33
LongContents ==
  { [k \in 1..n |-> IF k = p THEN "." ELSE IF k = q THEN " " ELSE "a"] :
      n \in LongLengths, p \in 0..33, q \in 0..33 }

DetectTokens ==
  { <<"@", "w", "e", "b">>, <<" ">>, <<"\n">>, <<"q">>, <<".">>, <<"@">>,
    <<"h", "t", "t", "p", ":", "/", "/", "a", "/", "b">> }

RECURSIVE Flatten(_)
Flatten(tokens) ==
  IF tokens = <<>> THEN <<>> ELSE Head(tokens) \o Flatten(Tail(tokens))

DetectInputs ==
  {Flatten(tokens) : tokens \in UNION {[1..n -> DetectTokens] : n \in 0..MaxTokens}}

\* truncateContent(content, maxLength) is called, and then called again on
\* what it returned.
Truncate ==
  /\ text.fn = "truncateContent"
  /\ Len(text.returned) < MaxTruncations
  /\ LET content == IF text.returned = <<>> THEN text.content
                    ELSE text.returned[Len(text.returned)]
     IN text' = [text EXCEPT !.returned = Append(@, truncateContent(content, text.maxLength))]
  /\ UNCHANGED <<providerVars, facadeVars>>

\* detectSearchCommand(input) is called.
Detect ==
  /\ text.fn = "detectSearchCommand"
  /\ text.returned = <<>>
  /\ text' = [text EXCEPT !.returned = <<detectSearchCommand(text.input)>>]
  /\ UNCHANGED <<providerVars, facadeVars>>

\* The calls made: a function and its arguments.
TextCalls ==
    {[fn |-> "truncateContent", content |-> content, maxLength |-> maxLength,
      returned |-> <<>>] :
       content \in ShortContents \cup LongContents, maxLength \in TruncateLimits}
    \cup
    {[fn |-> "detectSearchCommand", input |-> input, returned |-> <<>>] :
       input \in DetectInputs}

TextInit == ProviderInit /\ FacadeInit /\ text \in TextCalls

TextNext == Truncate \/ Detect

TextSpec == TextInit /\ [][TextNext]_vars

Init == ProviderInit /\ FacadeInit /\ text = NoText

ProviderSpec == Init /\ [][ProviderNext]_vars

FacadeSpec == Init /\ [][FacadeNext]_vars

\* The event loop runs every timer that is due and every caller takes its
\* result; nothing obliges the provider process to answer.
FacadeFairSpec ==
  /\ Init
  /\ [][FacadeNext]_vars
  /\ WF_vars(Return)
  /\ \A c \in Calls : SF_vars(TimerFire(c))


\* ======================================================================
\* Properties of the provider server
\* ======================================================================
Min(a, b) == IF a < b THEN a ELSE b

IsReadReply == reply.req.method = "resources/read"
IsListReply == reply.req.method = "resources/list"
IsToolReply == reply.req.method = "tools/call"

\* C1: in every state the recent-search cache holds at most 5 entries,
\* whatever searches have completed, failed or are still in flight.
CacheNeverExceedsCap == Len(recentSearches) <= MaxRecent

\* A sixth search has completed with the cache already full, another still
\* in flight.
CacheFullAfterSixth ==
  /\ Len(history) = MaxRecent + 1
  /\ Len(recentSearches) = MaxRecent
  /\ \E i \in Invocations : inv[i].pc = "json"

\* C2: after n successful searches the cache holds min(n, 5) entries and
\* position i holds the (i+1)-th most recent one, so that a read of
\* srcbook://searches/i with i < min(n, 5) returns that search's response;
\* no read returns a search older than the five most recent.
ReadReturnsIthMostRecent ==
  LET n == Len(history) IN
  /\ Len(recentSearches) = Min(n, MaxRecent)
  /\ \A i \in 0..(Min(n, MaxRecent) - 1) : recentSearches[i + 1] = history[n - i]
  /\ IsReadReply =>
       /\ \A i \in 0..(Min(n, MaxRecent) - 1) :
            reply.req.uri = SearchUri(i) =>
              /\ reply.result.kind = "read"
              /\ reply.result.contents[1].text = JsonStringify(history[n - i].response)
       /\ reply.result.kind = "read" =>
            \E i \in 0..(Min(n, MaxRecent) - 1) :
              reply.result.contents[1].text = JsonStringify(history[n - i].response)

\* Index 0 is read after six searches, the first one's response differing
\* from every later one's.
ReadLatestAfterSixth ==
  /\ Len(history) = MaxRecent + 1
  /\ IsReadReply
  /\ reply.req.uri = SearchUri(0)
  /\ reply.result.kind = "read"
  /\ \A k \in 2..(MaxRecent + 1) : history[k].response # history[1].response

\* C9: the tool handler checks the tool name, then the arguments, then the
\* credential, then the HTTP exchange, each failure with its own error code;
\* the provider response is returned only when all four pass.
ErrorCodeOf(result) == IF result.kind = "error" THEN result.code ELSE "none"

ToolChecksInOrder ==
  IsToolReply =>
    LET name == reply.req.name
        arguments == reply.req.arguments
        code == ErrorCodeOf(reply.result)
        nameOk == name = "search"
        argsOk == isValidSearchArgs(arguments)
        keyOk == reply.key \notin {NoKey, "unread"}
        httpOk == reply.fetch = "ok"
    IN
    /\ ~nameOk => code = "MethodNotFound"
    /\ nameOk /\ ~argsOk => code = "InvalidParams"
    /\ nameOk /\ argsOk => reply.key # "unread"
    /\ nameOk /\ argsOk /\ reply.key = NoKey => code = "InvalidRequest"
    /\ nameOk /\ argsOk /\ keyOk => reply.fetch \in {"rejected", "status", "ok"}
    /\ nameOk /\ argsOk /\ keyOk /\ ~httpOk => code = "InternalError"
    /\ code = "none" =>
         /\ nameOk /\ argsOk /\ keyOk /\ httpOk
         /\ reply.result.kind = "tool"
    /\ code = "MethodNotFound" => ~nameOk
    /\ code = "InvalidParams" => nameOk /\ ~argsOk
    /\ code = "InvalidRequest" => nameOk /\ argsOk /\ reply.key = NoKey
    /\ code = "InternalError" => nameOk /\ argsOk /\ keyOk

\* A call passed the first three checks and failed on the HTTP status.
ToolFailedOnHttpStatus ==
  /\ IsToolReply
  /\ reply.fetch = "status"
  /\ ErrorCodeOf(reply.result) = "InternalError"

\* C10 as claimed: list returns the descriptors srcbook://searches/0..(n-1)
\* and read succeeds exactly for those URIs.
ListedUris == {SearchUri(k) : k \in 0..(Len(recentSearches) - 1)}

ReadSucceedsExactlyForListed ==
  /\ IsListReply =>
       /\ Len(reply.result.resources) = Len(recentSearches)
       /\ \A k \in 1..Len(recentSearches) : reply.result.resources[k].uri = SearchUri(k - 1)
  /\ IsReadReply => (reply.result.kind = "read" <=> reply.req.uri \in ListedUris)

\* The URI is srcbook://searches/ followed by one or more decimal digits.
HasSearchShape(uri) ==
  \E len \in 1..Len(uri) :
    /\ Len(uri) = Len(UriPrefix) + len
    /\ \A k \in 1..Len(UriPrefix) : uri[k] = UriPrefix[k]
    /\ \A k \in 1..len : \E d \in 0..9 : uri[Len(UriPrefix) + k] = DigitChars[d + 1]

\* The number the decimal digits after the prefix denote, leading zeros
\* allowed.
DecimalValue(uri) ==
  LET ds == [k \in 1..(Len(uri) - Len(UriPrefix)) |-> uri[Len(UriPrefix) + k]]
      F[k \in 0..Len(ds)] ==
        IF k = 0 THEN 0
        ELSE 10 * F[k - 1] + (CHOOSE d \in 0..9 : DigitChars[d + 1] = ds[k])
  IN F[Len(ds)]

\* C10 (amended): list returns one descriptor per cached search, with the
\* URIs srcbook://searches/0..(n-1); read fails with invalid-request when the
\* URI is not srcbook://searches/<digits> or when the digits denote an index
\* >= n, and otherwise (which includes forms with leading zeros, such as
\* srcbook://searches/00) returns the response cached at that index.
ReadSucceedsForIndexInRange ==
  /\ IsListReply =>
       /\ Len(reply.result.resources) = Len(recentSearches)
       /\ \A k \in 1..Len(recentSearches) : reply.result.resources[k].uri = SearchUri(k - 1)
  /\ IsReadReply =>
       LET uri == reply.req.uri IN
       IF HasSearchShape(uri) /\ DecimalValue(uri) < Len(recentSearches)
       THEN /\ reply.result.kind = "read"
            /\ reply.result.contents[1].text =
                 JsonStringify(recentSearches[DecimalValue(uri) + 1].response)
       ELSE /\ reply.result.kind = "error"
            /\ reply.result.code = "InvalidRequest"

\* A read of srcbook://searches/00, which list never names, has succeeded.
ReadWithLeadingZero ==
  /\ IsReadReply
  /\ reply.req.uri = UriPrefix \o <<"0", "0">>
  /\ reply.result.kind = "read"

\* ======================================================================
\* Properties of the client facade
\* ======================================================================
IsEnrichDone == done.method = "enrich"
IsSearchSettled == done.method \in {"search", "enrich"} /\ done.outcome.type # "pending"
InProgress(c) == call[c].pc \in {"connect", "list", "read", "race"}

ErrorBroadcasts(sent) == {k \in 1..Len(sent) : sent[k].status = "error"}

\* C3: a call of enrichPromptWithWebResults with a trigger never lets an
\* exception escape: when a step fails it returns the original query and has
\* made exactly one error broadcast.
EnrichNeverThrows ==
  IsEnrichDone /\ detectSearchCommand(done.input) # NoMatch =>
    /\ ~done.threw
    /\ done.returned.kind # "enriched" =>
         /\ done.returned = [kind |-> "query", text |-> done.input]
         /\ Cardinality(ErrorBroadcasts(done.sent)) = 1

\* C4: every search() that has started eventually settles.
SearchEventuallySettles == \A c \in Calls : InProgress(c) ~> ~InProgress(c)

\* A search() that has armed its timer settles (the timer sees to it).
RacingSearchSettles == \A c \in Calls : call[c].pc = "race" ~> call[c].pc # "race"

\* C5: as long as disconnect() has closed no client, the facade has
\* constructed at most one Client.
NoClientClosed == \A k \in 1..Len(clients) : clients[k] \notin {"closing", "closed"}

ClientConstructedOnce == NoClientClosed => Len(clients) <= 1

\* C6 as claimed: a failed search() rejects with one of the three typed
\* errors, carrying the query: the connection error when the failure's
\* message names a connection, the timeout error when the timer won, and
\* otherwise a SearchError with the failure's message.
NamesConnection(thrown) == Includes(thrown.message, <<"c", "o", "n", "n", "e", "c", "t", "i", "o", "n">>)

FailedSearchWrapsMessage ==
  IsSearchSettled /\ done.outcome.type # "ok" =>
    /\ done.outcome.type \in {"SearchError", "MCPTimeoutError", "MCPConnectionError"}
    /\ done.outcome.searchQuery = done.query
    /\ done.outcome.type = "MCPConnectionError" <=> NamesConnection(done.thrown)
    /\ done.outcome.type = "MCPTimeoutError" <=> done.won = "timer"
    /\ done.outcome.type = "SearchError" => done.outcome.message = done.thrown.message

\* C6 (amended): a failed search() rejects with one of the three typed
\* errors, carrying the query: the connection error when the failure is an
\* Error whose message contains "connection"; the timeout error when the
\* timer won; otherwise a SearchError, which is the validation error itself
\* for a response without `results`, has the failure's message when the
\* failure is an Error, and the message "Unknown search error" when the
\* failure is not an Error object.
FailedSearchIsTyped ==
  IsSearchSettled /\ done.outcome.type # "ok" =>
    /\ done.outcome.type \in {"SearchError", "MCPTimeoutError", "MCPConnectionError"}
    /\ done.outcome.searchQuery = done.query
    /\ done.outcome.type = "MCPConnectionError" <=>
         (done.thrown.type # "NonError" /\ NamesConnection(done.thrown))
    /\ done.outcome.type = "MCPConnectionError" =>
         /\ done.outcome.message = <<"F", "a", "i", "l", "e", "d", " ", "t", "o", " ", "c", "o", "n", "n", "e", "c", "t", " ", "t", "o", " ", "s", "e", "a", "r", "c", "h", " ", "s", "e", "r", "v", "i", "c", "e">>
         /\ done.outcome.cause = done.thrown
    /\ done.outcome.type = "MCPTimeoutError" <=> done.won = "timer"
    /\ done.outcome.type = "MCPTimeoutError" => done.outcome.message = <<"S", "e", "a", "r", "c", "h", " ", "t", "i", "m", "e", "o", "u", "t">>
    /\ done.outcome.type = "SearchError" =>
         done.outcome.message =
           (IF done.thrown.type = "NonError" THEN <<"U", "n", "k", "n", "o", "w", "n", " ", "s", "e", "a", "r", "c", "h", " ", "e", "r", "r", "o", "r">>
            ELSE done.thrown.message)
    /\ done.won = "tool" /\ done.thrown.type = "SearchError" =>
         done.outcome = SearchError(<<"R", "e", "s", "p", "o", "n", "s", "e", " ", "m", "i", "s", "s", "i", "n", "g", " ", "r", "e", "s", "u", "l", "t", "s", " ", "a", "r", "r", "a", "y">>, done.query)

\* A search() failed on a thrown value that is not an Error and whose text
\* names a connection.
SearchFailedOnNonError ==
  /\ IsSearchSettled
  /\ done.thrown.type = "NonError"
  /\ NamesConnection(done.thrown)
  /\ done.outcome.type = "SearchError"

\* C7: enrichPromptWithWebResults on text without a trigger returns the
\* text unchanged, broadcasts nothing, acquires no client and issues no
\* search: the facade's state is as before the call.
NoTriggerNoEffect ==
  /\ [](IsEnrichDone /\ detectSearchCommand(done.input) = NoMatch =>
          /\ done.returned = [kind |-> "query", text |-> done.input]
          /\ ~done.threw
          /\ done.sent = <<>>
          /\ done.own = NoClient
          /\ done.outcome = NoOutcome)
  /\ [][done'.method = "enrich" /\ detectSearchCommand(done'.input) = NoMatch =>
          UNCHANGED <<client, clients, call, disc>>]_vars

\* An enrich call on "@web" (the marker without any text) has returned,
\* with another call in progress.
EnrichReturnedWithoutTrigger ==
  /\ IsEnrichDone
  /\ done.input = <<"@", "w", "e", "b">>
  /\ done.returned.kind = "query"
  /\ \E c \in Calls : InProgress(c)

\* C8: when disconnect() resolves, the client it closed is closed and no
\* client is cached; a disconnect() with no cached client changes nothing;
\* the cached client is never a closed one, and a search() that starts with
\* no cached client constructs and connects a new Client.
Starting(c) == ~InProgress(c) /\ InProgress(c)'

DisconnectClearsClient ==
  /\ [](/\ done.method = "disconnect" /\ done.resolved => client = NoClient
        /\ done.method = "disconnect" /\ done.resolved /\ done.target # NoClient =>
             clients[done.target] = "closed"
        /\ client # NoClient => clients[client] # "closed")
  /\ [][/\ done'.method = "disconnect" /\ done'.target = NoClient =>
             UNCHANGED <<client, clients, call, disc>>
        /\ \A c \in Calls :
             Starting(c) =>
               IF client = NoClient
               THEN /\ Len(clients') = Len(clients) + 1
                    /\ call'[c].own = Len(clients')
                    /\ clients'[call'[c].own] = "connecting"
                    /\ call'[c].pc = "connect"
               ELSE /\ call'[c].own = client
                    /\ clients' = clients]_vars

\* After a disconnect() has closed the first client, a search() is
\* connecting a second one.
SearchReconnectsAfterDisconnect ==
  /\ Len(clients) = 2
  /\ clients[1] = "closed"
  /\ client = NoClient
  /\ \E c \in Calls : call[c].pc = "connect" /\ call[c].own = 2

\* C11: the error broadcast of a failed enrichment carries the message of
\* the failure when the failure is a SearchError, and for every other
\* failure (timeout error, connection error, a throwing broadcast, a
\* TypeError of the formatting) the fixed text "Unknown error during web
\* search".
UnknownError == <<"U", "n", "k", "n", "o", "w", "n", " ", "e", "r", "r", "o", "r", " ", "d", "u", "r", "i", "n", "g", " ", "w", "e", "b", " ", "s", "e", "a", "r", "c", "h">>

\* What the catch block of a finished enrich call caught: the rejection of
\* search(), or else the exception of a broadcast or of the formatting.
EnrichFailure ==
  IF done.outcome.type \notin {"ok", "pending"} THEN done.outcome
  ELSE IF Len(done.sent) = 3 THEN TypeError
  ELSE BroadcastError

ErrorBroadcastMessage ==
  IsEnrichDone =>
    \A k \in ErrorBroadcasts(done.sent) :
      /\ k = Len(done.sent)
      /\ EnrichFailure.type = "SearchError" => done.sent[k].error = EnrichFailure.message
      /\ EnrichFailure.type # "SearchError" =>
           /\ done.sent[k].error = UnknownError
           /\ done.sent[k].error # EnrichFailure.message

\* An enrichment failed on the timeout and has broadcast the generic text.
TimeoutBroadcastAsUnknown ==
  /\ IsEnrichDone
  /\ done.outcome.type = "MCPTimeoutError"
  /\ ErrorBroadcasts(done.sent) # {}
  /\ done.sent[Len(done.sent)].error = UnknownError

\* C14: the side of the race that settles first fixes the outcome of
\* search(): when the timer wins the call rejects with the timeout error,
\* when the provider wins its result (or its error, classified) is
\* delivered, the call is settled exactly once, and the other side settling
\* later delivers nothing to anybody.
LoserSettles(c) ==
  /\ call[c].pc = "settled"
  /\ call'[c].pc \in {"settled", "idle"}
  /\ call'[c] # call[c]

WinnerSettles(c) == call[c].pc = "race" /\ call'[c].pc # "race"

FirstSettlementWins ==
  /\ [](IsSearchSettled =>
          /\ done.won = "timer" =>
               done.outcome = MCPTimeoutError(<<"S", "e", "a", "r", "c", "h", " ", "t", "i", "m", "e", "o", "u", "t">>, done.query)
          /\ done.won = "tool" =>
               /\ done.outcome.type # "MCPTimeoutError"
               /\ done.thrown = NoThrown <=> done.outcome.type = "ok")
  /\ [][\A c \in Calls :
          /\ LoserSettles(c) => done' = NoDone /\ done = NoDone
          /\ WinnerSettles(c) =>
               /\ done = NoDone
               /\ done'.method = call[c].kind
               /\ done'.won = (IF call'[c].timer = "none" /\ call[c].timer = "armed"
                               THEN "timer" ELSE "tool")
               /\ call'[c].pc \in {"settled", "idle"}
               /\ call'[c].timer = "none" \/ call'[c].tool = "none"]_vars

\* The timer has won a race whose provider call is still pending, and the
\* caller holds the timeout error.
TimeoutDeliveredProviderPending ==
  /\ done.method = "search"
  /\ done.won = "timer"
  /\ \E c \in Calls : call[c].pc = "settled" /\ call[c].tool = "pending"

\* C15: with overlapping search invocations, every successful one inserts
\* exactly one entry, in the step in which it completes and together with
\* the eviction, leaving the other invocation as it was; the cache is the
\* last five completed searches, each once, the latest completed first.
Suspended(i) == inv[i].pc \in {"getConfig", "fetch", "json"}

Completes(i) == inv[i].pc = "json" /\ inv'[i].pc = "idle" /\ reply'.result.kind = "tool"

LastCompleted(h) == [k \in 1..Min(Len(h), MaxRecent) |-> h[Len(h) - k + 1]]

CacheIsCompletionOrder ==
  /\ [](recentSearches = LastCompleted(history))
  /\ [][/\ \A i \in Invocations :
             Completes(i) =>
               /\ Len(history') = Len(history) + 1
               /\ recentSearches'[1] = history'[Len(history')]
               /\ recentSearches'[1].query = inv[i].arguments.query
               /\ Len(recentSearches') = Min(Len(recentSearches) + 1, MaxRecent)
               /\ \A k \in 2..Len(recentSearches') :
                    recentSearches'[k] = recentSearches[k - 1]
               /\ \A j \in Invocations \ {i} : inv'[j] = inv[j]
        /\ history' # history \/ recentSearches' # recentSearches =>
             \E i \in Invocations : Completes(i)]_vars

\* A search completed and was cached, evicting the oldest entry, while the
\* other invocation is still waiting for its response body.
SearchCachedDuringOverlap ==
  /\ IsToolReply
  /\ reply.result.kind = "tool"
  /\ Len(history) = MaxRecent + 1
  /\ recentSearches[1] = history[Len(history)]
  /\ recentSearches[1].response # recentSearches[2].response
  /\ \E j \in Invocations : inv[j].pc = "json"

\* C20: a search invocation that ends in an error, and every list and read
\* request, leaves the cache as it was: the cache changes only in the step
\* that returns a tool result.  Without a credential, list and read still
\* answer from the cache.
FailuresLeaveCache ==
  /\ [][/\ reply'.req.method \in {"resources/list", "resources/read"} =>
             recentSearches' = recentSearches
        /\ reply'.req.method = "tools/call" /\ reply'.result.kind = "error" =>
             recentSearches' = recentSearches
        /\ recentSearches' # recentSearches =>
             reply'.req.method = "tools/call" /\ reply'.result.kind = "tool"]_vars
  /\ [](exaApiKey = NoKey =>
          /\ IsListReply =>
               /\ reply.result.kind = "list"
               /\ Len(reply.result.resources) = Len(recentSearches)
          /\ IsReadReply /\ reply.req.uri \in ListedUris => reply.result.kind = "read")

\* With the credential removed again, a cached search is read, and a search
\* invocation started meanwhile is about to fail on the missing credential.
ReadWithoutCredential ==
  /\ exaApiKey = NoKey
  /\ IsReadReply
  /\ reply.result.kind = "read"
  /\ \E i \in Invocations : inv[i].pc = "getConfig"

\* C18: an enrich call on input with a trigger broadcasts `searching` and
\* then exactly one of `complete` and `error`; it returns the enriched prompt
\* exactly when it broadcast `complete` and the original query exactly when
\* it broadcast `error`.
Statuses(sent) == [k \in 1..Len(sent) |-> sent[k].status]

SearchingThenOneTerminal ==
  IsEnrichDone /\ detectSearchCommand(done.input) # NoMatch =>
    /\ Statuses(done.sent) \in {<<"searching", "complete">>, <<"searching", "error">>}
    /\ done.returned.kind = "enriched" <=> Statuses(done.sent)[2] = "complete"
    /\ done.returned = [kind |-> "query", text |-> done.input] <=>
         Statuses(done.sent)[2] = "error"

\* The same for the calls in which no broadcast threw: it fails when the
\* formatting throws after `complete` has been broadcast.
NoBroadcastThrew ==
  /\ ~done.threw
  /\ done.sent # <<>>
  /\ done.sent[1].status = "searching"
  /\ done.outcome.type = "ok" => Len(done.sent) >= 2 /\ done.sent[2].status = "complete"

CompleteAndErrorBroadcast ==
  /\ IsEnrichDone
  /\ NoBroadcastThrew
  /\ Statuses(done.sent) = <<"searching", "complete", "error">>
  /\ done.returned = [kind |-> "query", text |-> done.input]

\* C19: when a disconnect() has completed (and before any further search()
\* starts), no client is cached and no client the facade constructed is
\* connected, whatever search() calls were in flight.
DisconnectLeavesNoClient ==
  done.method = "disconnect" /\ done.resolved =>
    /\ client = NoClient
    /\ \A k \in 1..Len(clients) : clients[k] # "connected"

\* A disconnect() has completed, no call is in flight, and a client that was
\* never cached or was replaced in the cache is still connected.
ClientLeftConnected ==
  /\ done.method = "disconnect"
  /\ done.resolved
  /\ \A c \in Calls : ~InProgress(c)
  /\ \E k \in 1..Len(clients) : clients[k] = "connected"

\* ======================================================================
\* Properties of the text functions
\* ======================================================================
IsTruncated == text.fn = "truncateContent" /\ text.returned # <<>>
IsDetected == text.fn = "detectSearchCommand" /\ text.returned # <<>>
CharLimit == text.maxLength * 6
Ellipsis == <<".", ".", ".">>

\* C12: truncateContent is idempotent: content within the limit is returned
\* unchanged, and truncating a result again returns the same result.
TruncateIdempotent ==
  /\ IsTruncated /\ Len(text.content) <= CharLimit => text.returned[1] = text.content
  /\ IsTruncated /\ Len(text.returned) >= 2 => text.returned[2] = text.returned[1]

\* A result cut at a space, longer than the limit, was truncated again and
\* came out shorter, cut at a period of its own ellipsis.
RetruncatedShorter ==
  /\ IsTruncated
  /\ Len(text.returned) = 2
  /\ Len(text.returned[1]) > CharLimit
  /\ Len(text.returned[2]) < Len(text.returned[1])

\* C13: when the input has `@web`, white space and text, detectSearchCommand
\* returns the text after the marker up to the end of the input, whether or
\* not the input has a URL; it returns a URL only when the input has no
\* marker, and null only when it has neither.
MarkerAt(input, i) ==
  /\ i + 4 <= Len(input)
  /\ SubSeq(input, i, i + 3) = <<"@", "w", "e", "b">>
  /\ input[i + 4] \in WhiteSpace

\* The texts after a marker and white space, to the end of the input.
MarkerTexts(input) ==
  { SubSeq(input, k, Len(input)) :
      k \in {k \in 1..Len(input) :
               \E i \in 1..Len(input) :
                 /\ MarkerAt(input, i)
                 /\ k > i + 4
                 /\ \A j \in (i + 4)..(k - 1) : input[j] \in WhiteSpace} }

\* A marker is followed by white space and then by text that is not all
\* white space.
HasMarker(input) == \E t \in MarkerTexts(input) : t[1] \notin WhiteSpace

MarkerTakesPrecedence ==
  IsDetected =>
    LET searchQuery == text.returned[1]
        hasUrl == UrlMatch(text.input) # NoMatch
    IN /\ HasMarker(text.input) => searchQuery \in MarkerTexts(text.input)
       /\ searchQuery # NoMatch /\ searchQuery \notin MarkerTexts(text.input) =>
            ~HasMarker(text.input) /\ searchQuery = UrlMatch(text.input)
       /\ searchQuery = NoMatch => ~HasMarker(text.input) /\ ~hasUrl
       /\ ~Includes(text.input, <<"@", "w", "e", "b">>) /\ ~hasUrl => searchQuery = NoMatch

\* The input is `@web q` and a line break: the marker is not recognised.
MarkerLostBeforeLineBreak ==
  /\ IsDetected
  /\ text.input = <<"@", "w", "e", "b", " ", "q", "\n">>
  /\ text.returned[1] = NoMatch

\* C16: content longer than the limit is cut after the last period of its
\* first L characters exactly when that period's index is at least 70% of
\* L, and otherwise at the last space of its first L characters, with `...`
\* appended.
TruncateCutsAsClaimed ==
  IsTruncated /\ Len(text.content) > CharLimit =>
    LET first == SubSeq(text.content, 1, CharLimit)
        lastPeriod == LastIndexOf(first, ".")
        lastSpace == LastIndexOf(first, " ")
    IN IF lastPeriod >= 0 /\ lastPeriod * 10 >= CharLimit * 7
       THEN text.returned[1] = SubSeq(first, 1, lastPeriod + 1)
       ELSE /\ lastSpace >= 0
            /\ text.returned[1] = SubSeq(first, 1, lastSpace) \o Ellipsis

\* Content whose first L characters have neither a period nor a space lost
\* just its last character before the ellipsis.
CutWithoutSpace ==
  /\ IsTruncated
  /\ Len(text.content) > CharLimit
  /\ \A k \in 1..CharLimit : text.content[k] = "a"
  /\ text.returned[1] = SubSeq(text.content, 1, CharLimit - 1) \o Ellipsis

\* A period at exactly 70% of the limit (index 21 of 30) was not taken.
PeriodAtSeventyPercentNotTaken ==
  /\ IsTruncated
  /\ text.maxLength = 5
  /\ Len(text.content) > CharLimit
  /\ LastIndexOf(SubSeq(text.content, 1, CharLimit), ".") = 21
  /\ LastIndexOf(SubSeq(text.content, 1, CharLimit), " ") = 10
  /\ text.returned[1] = SubSeq(text.content, 1, 10) \o Ellipsis

\* C17: what truncateContent returns is never longer than maxLength * 6
\* characters.
TruncateWithinLimit == IsTruncated => Len(text.returned[1]) <= CharLimit

====
